---- MODULE Spec2Model ----
(***************************************************************************)
(* State-machine model of the ValidationObserver component                 *)
(* (src/components/Observer.ts): the registry of providers and nested      *)
(* observers, the persistence cache, the debounced aggregate watcher and   *)
(* the validate/passes/reset/setErrors fan-out.                            *)
(***************************************************************************)
EXTENDS Integers, Sequences, FiniteSets, TLC

(***************************************************************************)
(* Bounds and the universe of component instances.                         *)
(***************************************************************************)
\* number of calls made by the environment (hooks, API calls, field changes)
MaxOps == 4

\* observer instances: R is the root, A is nested in R, B is nested in A
Scopes == {"R", "A", "B"}
NoScope == "none"

\* the injected $_veeObserver of each observer instance
Parent(s) == CASE s = "A" -> "R" [] s = "B" -> "A" [] OTHER -> NoScope

\* the vid prop of each observer instance
Vid(s) == CASE s = "R" -> "obs_0" [] s = "A" -> "obs_1" [] OTHER -> "obs_2"

\* provider instances and their props (vid, persist, disabled) and the
\* observer each one is rendered in
Handles == {"h1", "h2", "h3", "h4", "h5"}
Ids == {"a", "b"}
KeyOrder == <<"a", "b">>
HId(h) == IF h = "h4" THEN "b" ELSE "a"
HPersist(h) == h \in {"h1", "h3", "h5"}
HDisabled(h) == h = "h3"
HScope(h) == IF h = "h5" THEN "B" ELSE "R"

(***************************************************************************)
(* Provider state: flags, errors, failedRules.                             *)
(***************************************************************************)
FreshFlags ==
  [pristine |-> TRUE, dirty |-> FALSE, touched |-> FALSE, untouched |-> TRUE,
   valid |-> FALSE, invalid |-> FALSE, pending |-> FALSE, validated |-> FALSE,
   changed |-> FALSE, passed |-> FALSE, failed |-> FALSE]
PassedFlags ==
  [pristine |-> FALSE, dirty |-> TRUE, touched |-> TRUE, untouched |-> FALSE,
   valid |-> TRUE, invalid |-> FALSE, pending |-> FALSE, validated |-> TRUE,
   changed |-> TRUE, passed |-> TRUE, failed |-> FALSE]
\* failed its synchronous rules while an asynchronous rule is still in flight
FailedFlags ==
  [pristine |-> FALSE, dirty |-> TRUE, touched |-> TRUE, untouched |-> FALSE,
   valid |-> FALSE, invalid |-> TRUE, pending |-> TRUE, validated |-> TRUE,
   changed |-> TRUE, passed |-> FALSE, failed |-> TRUE]

NoRules == [r \in {} |-> <<>>]
FreshState == [flags |-> FreshFlags, errors |-> <<>>, failedRules |-> NoRules]
PassedState == [flags |-> PassedFlags, errors |-> <<>>, failedRules |-> NoRules]
FailedState ==
  [flags |-> FailedFlags, errors |-> <<"required">>,
   failedRules |-> [required |-> "required"]]
ProvStates == {FreshState, PassedState, FailedState}

\* a strategy table with one reduction swapped: valid reduced with some
FLAGS_STRATEGIES_ValidSome ==
  << <<"pristine", "every">>, <<"dirty", "some">>, <<"touched", "some">>,
     <<"untouched", "every">>, <<"valid", "some">>, <<"invalid", "some">>,
     <<"pending", "some">>, <<"validated", "every">>, <<"changed", "some">>,
     <<"passed", "every">>, <<"failed", "some">> >>

(***************************************************************************)
(* Observer.ts, lines 14-26.                                               *)
(***************************************************************************)
FLAGS_STRATEGIES ==
  << <<"pristine", "every">>, <<"dirty", "some">>, <<"touched", "some">>,
     <<"untouched", "every">>, <<"valid", "every">>, <<"invalid", "some">>,
     <<"pending", "some">>, <<"validated", "every">>, <<"changed", "some">>,
     <<"passed", "every">>, <<"failed", "some">> >>

VARIABLES
  life,          \* lifecycle position of each observer instance
  refs,          \* this.refs: id -> provider instance
  inactiveRefs,  \* this.inactiveRefs: id -> {id, flags, errors, failedRules}
  observers,     \* this.observers: sequence of nested observer instances
  errors,        \* this.errors
  flags,         \* this.flags
  timer,         \* the debounced onChange: armed or not, with its last arguments
  pstate,        \* flags/errors/failedRules of each provider instance
  disabled,      \* the disabled prop of each observer instance
  log,           \* calls made on collaborators by the last handler
  ret,           \* what the last synchronous handler returned
  run,           \* the validate()/passes() call in flight and its fan-out
  ops            \* number of environment calls so far

vars ==
  <<life, refs, inactiveRefs, observers, errors, flags, timer, pstate, disabled,
    log, ret, run, ops>>

Alive == {"created", "activated", "deactivated"}

EmptyMap == [k \in {} |-> <<>>]
Unarmed == [armed |-> FALSE, errors |-> EmptyMap, flags |-> EmptyMap]

\* Object.keys / values of a plain object
Keys(obj) == SelectSeq(KeyOrder, LAMBDA k : k \in DOMAIN obj)
values(obj) == [i \in 1..Len(Keys(obj)) |-> obj[Keys(obj)[i]]]

\* this.$delete(obj, key)
Delete(obj, key) == [k \in DOMAIN obj \ {key} |-> obj[k]]

Range(seq) == {seq[i] : i \in DOMAIN seq}

\* JavaScript truthiness of vm.flags[flag]; a missing key reads as undefined
Truthy(fl, flag) == flag \in DOMAIN fl /\ fl[flag]

\* Array.prototype.every / some over the mapped array
every(bools) == \A i \in DOMAIN bools : bools[i]
some(bools) == \E i \in DOMAIN bools : bools[i]

(***************************************************************************)
(* The watcher getter of created(), lines 108-124.                         *)
(***************************************************************************)
\* a candidate list without the disabled providers and nested observers
WatchVms_SkipsDisabled(rf, ir, ob, ps, er, fl) ==
  LET rs == SelectSeq(values(rf), LAMBDA h : ~HDisabled(h))
      os == SelectSeq(ob, LAMBDA o : ~disabled[o])
  IN [i \in 1..Len(rs) |->
         [id |-> HId(rs[i]), errors |-> ps[rs[i]].errors, flags |-> ps[rs[i]].flags]]
     \o [i \in 1..Len(values(ir)) |->
         [id |-> values(ir)[i].id, errors |-> values(ir)[i].errors,
          flags |-> values(ir)[i].flags]]
     \o [i \in 1..Len(os) |-> [id |-> Vid(os[i]), errors |-> er[os[i]], flags |-> fl[os[i]]]]

\* a candidate list without the cached entries
WatchVms_ActiveOnly(rf, ir, ob, ps, er, fl) ==
  [i \in 1..Len(values(rf)) |->
      [id |-> HId(values(rf)[i]), errors |-> ps[values(rf)[i]].errors,
       flags |-> ps[values(rf)[i]].flags]]
  \o [i \in 1..Len(ob) |-> [id |-> Vid(ob[i]), errors |-> er[ob[i]], flags |-> fl[ob[i]]]]

WatchVms(rf, ir, ob, ps, er, fl) ==
  [i \in 1..Len(values(rf)) |->
      [id |-> HId(values(rf)[i]), errors |-> ps[values(rf)[i]].errors,
       flags |-> ps[values(rf)[i]].flags]]
  \o [i \in 1..Len(values(ir)) |->
      [id |-> values(ir)[i].id, errors |-> values(ir)[i].errors,
       flags |-> values(ir)[i].flags]]
  \o [i \in 1..Len(ob) |-> [id |-> Vid(ob[i]), errors |-> er[ob[i]], flags |-> fl[ob[i]]]]

WatchErrors(vms) ==
  [k \in {vms[i].id : i \in DOMAIN vms} |->
      LET last == CHOOSE i \in DOMAIN vms :
                     /\ vms[i].id = k
                     /\ \A j \in DOMAIN vms : vms[j].id = k => j <= i
      IN vms[last].errors]

WatchFlags(vms) ==
  [flag \in {FLAGS_STRATEGIES[j][1] : j \in DOMAIN FLAGS_STRATEGIES} |->
      LET j == CHOOSE j \in DOMAIN FLAGS_STRATEGIES : FLAGS_STRATEGIES[j][1] = flag
          mapped == [i \in DOMAIN vms |-> Truthy(vms[i].flags, flag)]
      IN IF FLAGS_STRATEGIES[j][2] = "every" THEN every(mapped) ELSE some(mapped)]

WatchGetter(rf, ir, ob, ps, er, fl) ==
  LET vms == WatchVms(rf, ir, ob, ps, er, fl)
  IN [armed |-> TRUE, errors |-> WatchErrors(vms), flags |-> WatchFlags(vms)]

(***************************************************************************)
(* Methods, as functions of the state they read and write.  st.dirty is    *)
(* the set of observers whose watcher has a dependency notified by the     *)
(* call.                                                                   *)
(***************************************************************************)
St ==
  [refs |-> refs, inactiveRefs |-> inactiveRefs, observers |-> observers,
   pstate |-> pstate, log |-> <<>>, ret |-> "undefined", dirty |-> {}]

\* the observers whose watcher reads provider h
Holders(st, h) == {s \in Scopes : \E k \in DOMAIN st.refs[s] : st.refs[s][k] = h}

Call(st, target, method, arg) ==
  [st EXCEPT !.log = Append(@, [w |-> target, m |-> method, arg |-> arg])]

\* provider.setFlags(flags)
setFlags(st, h, fl) ==
  [Call(st, h, "setFlags", fl) EXCEPT !.pstate[h].flags = fl,
                                      !.dirty = @ \cup Holders(st, h)]

\* provider.applyResult({errors, failedRules})
applyResult(st, h, result) ==
  [Call(st, h, "applyResult", result) EXCEPT
      !.pstate[h].errors = result.errors,
      !.pstate[h].failedRules = result.failedRules,
      !.dirty = @ \cup Holders(st, h)]

\* lines 184-194
restoreProviderState(st, s, provider) ==
  LET id == HId(provider)
  IN IF id \notin DOMAIN st.inactiveRefs[s]
       THEN st
       ELSE LET state == st.inactiveRefs[s][id]
                st1 == setFlags(st, provider, state.flags)
                st2 == applyResult(st1, provider, state)
            IN [st2 EXCEPT !.inactiveRefs[s] = Delete(@, HId(provider)),
                           !.dirty = @ \cup {s}]

\* a subscribe that keeps the provider already registered under the id
subscribe_KeepsFirst(st, s, subscriber, kind) ==
  IF kind = "observer"
    THEN [st EXCEPT !.observers[s] = Append(@, subscriber), !.dirty = @ \cup {s}]
    ELSE LET st1 == [st EXCEPT !.refs[s] = @ @@ (HId(subscriber) :> subscriber),
                               !.dirty = @ \cup {s}]
         IN IF HPersist(subscriber) THEN restoreProviderState(st1, s, subscriber) ELSE st1

\* lines 137-147
subscribe(st, s, subscriber, kind) ==
  IF kind = "observer"
    THEN [st EXCEPT !.observers[s] = Append(@, subscriber), !.dirty = @ \cup {s}]
    ELSE LET st1 == [st EXCEPT !.refs[s] = (HId(subscriber) :> subscriber) @@ @,
                               !.dirty = @ \cup {s}]
         IN IF HPersist(subscriber) THEN restoreProviderState(st1, s, subscriber) ELSE st1

\* a removeProvider that cleans up the cached entry of an id that is not registered
removeProvider_PurgesCache(st, s, id) ==
  IF id \notin DOMAIN st.refs[s]
    THEN [st EXCEPT !.inactiveRefs[s] = Delete(@, id), !.dirty = @ \cup {s}]
    ELSE LET provider == st.refs[s][id]
             st1 == IF HPersist(provider)
                      THEN [st EXCEPT !.inactiveRefs[s] =
                              (id :> [id |-> id,
                                      flags |-> st.pstate[provider].flags,
                                      errors |-> st.pstate[provider].errors,
                                      failedRules |-> st.pstate[provider].failedRules]) @@ @]
                      ELSE st
         IN [st1 EXCEPT !.refs[s] = Delete(@, id), !.dirty = @ \cup {s}]

\* a removeProvider that caches the state of every provider it removes
removeProvider_AlwaysCaches(st, s, id) ==
  IF id \notin DOMAIN st.refs[s]
    THEN st
    ELSE LET provider == st.refs[s][id]
             st1 == [st EXCEPT !.inactiveRefs[s] =
                       (id :> [id |-> id,
                               flags |-> st.pstate[provider].flags,
                               errors |-> st.pstate[provider].errors,
                               failedRules |-> st.pstate[provider].failedRules]) @@ @]
         IN [st1 EXCEPT !.refs[s] = Delete(@, id), !.dirty = @ \cup {s}]

\* lines 195-222
removeProvider(st, s, id) ==
  IF id \notin DOMAIN st.refs[s]
    THEN st
    ELSE LET provider == st.refs[s][id]
             st1 == IF HPersist(provider)
                      THEN [st EXCEPT !.inactiveRefs[s] =
                              (id :> [id |-> id,
                                      flags |-> st.pstate[provider].flags,
                                      errors |-> st.pstate[provider].errors,
                                      failedRules |-> st.pstate[provider].failedRules]) @@ @]
                      ELSE st
         IN [st1 EXCEPT !.refs[s] = Delete(@, id), !.dirty = @ \cup {s}]

\* findIndex(this.observers, o => o.id === id); -1 when there is none
findIndex(obs, id) ==
  IF \E i \in DOMAIN obs : Vid(obs[i]) = id
    THEN CHOOSE i \in DOMAIN obs :
            Vid(obs[i]) = id /\ \A j \in DOMAIN obs : Vid(obs[j]) = id => i <= j
    ELSE -1

\* array.splice(idx, 1)
splice(seq, idx) == SubSeq(seq, 1, idx - 1) \o SubSeq(seq, idx + 1, Len(seq))

\* lines 148-158
unsubscribe(st, s, id, kind) ==
  IF kind = "provider"
    THEN removeProvider(st, s, id)
    ELSE LET idx == findIndex(st.observers[s], id)
         IN IF idx # -1
              THEN [st EXCEPT !.observers[s] = splice(@, idx), !.dirty = @ \cup {s}]
              ELSE st

\* lines 244-248
register(st, c) ==
  IF Parent(c) # NoScope THEN subscribe(st, Parent(c), c, "observer") ELSE st

\* lines 238-242
unregister(st, c) ==
  IF Parent(c) # NoScope THEN unsubscribe(st, Parent(c), Vid(c), "observer") ELSE st

(***************************************************************************)
(* reset(), lines 177-183, and setErrors(), lines 223-234.                 *)
(***************************************************************************)
\* provider.reset()
providerReset(st, h) ==
  [Call(st, h, "reset", <<>>) EXCEPT !.pstate[h] = FreshState,
                                     !.dirty = @ \cup Holders(st, h)]

\* provider.setErrors(messages)
providerSetErrors(st, h, messages) ==
  [Call(st, h, "setErrors", messages) EXCEPT !.pstate[h].errors = messages,
                                             !.dirty = @ \cup Holders(st, h)]

RECURSIVE deleteEach(_, _, _)
deleteEach(st, s, keys) ==
  IF keys = <<>>
    THEN st
    ELSE deleteEach([Call(st, s, "$delete", Head(keys)) EXCEPT
                        !.inactiveRefs[s] = Delete(@, Head(keys)),
                        !.dirty = @ \cup {s}],
                    s, Tail(keys))

RECURSIVE reset(_, _)
RECURSIVE resetEach(_, _)
resetEach(st, targets) ==
  IF targets = <<>>
    THEN st
    ELSE resetEach(IF Head(targets) \in Handles
                     THEN providerReset(st, Head(targets))
                     ELSE reset(Call(st, Head(targets), "reset", <<>>), Head(targets)),
                   Tail(targets))

reset(st, s) ==
  LET st1 == deleteEach(st, s, Keys(st.inactiveRefs[s]))
      st2 == resetEach(st1, values(st.refs[s]) \o st.observers[s])
  IN [st2 EXCEPT !.ret = "undefined"]

\* errors[key] || [] is errors[key] for the arrays of the declared parameter
\* type: an array is truthy, also when it is empty
RECURSIVE setErrors(_, _, _)
RECURSIVE setErrorsKeys(_, _, _, _)
RECURSIVE setErrorsObservers(_, _, _)
RECURSIVE setErrorsObservers_SkipsDisabled(_, _, _)
\* a forwarding loop that skips the disabled nested observers
setErrorsObservers_SkipsDisabled(st, obs, errs) ==
  IF obs = <<>>
    THEN st
    ELSE setErrorsObservers_SkipsDisabled(
           IF disabled[Head(obs)]
             THEN st
             ELSE setErrors(Call(st, Head(obs), "setErrors", errs), Head(obs), errs),
           Tail(obs), errs)

setErrorsKeys(st, s, errs, keys) ==
  IF keys = <<>>
    THEN st
    ELSE setErrorsKeys(IF Head(keys) \notin DOMAIN st.refs[s]
                         THEN st
                         ELSE providerSetErrors(st, st.refs[s][Head(keys)],
                                                errs[Head(keys)]),
                       s, errs, Tail(keys))

setErrorsObservers(st, obs, errs) ==
  IF obs = <<>>
    THEN st
    ELSE setErrorsObservers(setErrors(Call(st, Head(obs), "setErrors", errs), Head(obs), errs),
                            Tail(obs), errs)

setErrors(st, s, errs) ==
  LET st1 == setErrorsKeys(st, s, errs, Keys(errs))
      st2 == setErrorsObservers(st1, st.observers[s], errs)
  IN [st2 EXCEPT !.ret = "undefined"]

\* the maps handed to setErrors
ErrInputs ==
  { [a |-> <<"taken">>],
    [a |-> <<"bad", "worse">>, b |-> <<>>] }

(***************************************************************************)
(* validate(), lines 159-168, and passes(), lines 169-176.  A call is a    *)
(* record: p is the path of observers indices leading to the validate()    *)
(* that made it, w its target, m the method called.                        *)
(***************************************************************************)
\* a validate that also calls disabled providers and disabled nested observers
RECURSIVE validate_CallsDisabled(_, _, _)
validate_CallsDisabled(s, p, silent) ==
  {[p |-> p, w |-> s, leaf |-> FALSE, m |-> "validate", silent |-> silent]}
  \cup {[p |-> p, w |-> refs[s][k], leaf |-> TRUE,
         m |-> IF silent THEN "validateSilent" ELSE "validate", silent |-> silent] :
          k \in DOMAIN refs[s]}
  \cup UNION {validate_CallsDisabled(observers[s][i], Append(p, i), silent) :
                i \in DOMAIN observers[s]}

\* lines 159-165: the calls made by validate({silent}) of s and, through the
\* nested observers, by the validate({silent}) calls it makes
RECURSIVE validate(_, _, _)
validate(s, p, silent) ==
  {[p |-> p, w |-> s, leaf |-> FALSE, m |-> "validate", silent |-> silent]}
  \cup {[p |-> p, w |-> refs[s][k], leaf |-> TRUE,
         m |-> IF silent THEN "validateSilent" ELSE "validate", silent |-> silent] :
          k \in {j \in DOMAIN refs[s] : ~HDisabled(refs[s][j])}}
  \cup UNION {validate(observers[s][i], Append(p, i), silent) :
                i \in {j \in DOMAIN observers[s] : ~disabled[observers[s][j]]}}

\* the calls whose promises the validate() call n awaits
Awaited(calls, n) ==
  {c \in DOMAIN calls :
      \/ c.leaf /\ c.p = n.p
      \/ ~c.leaf /\ Len(c.p) = Len(n.p) + 1 /\ SubSeq(c.p, 1, Len(n.p)) = n.p}

\* a join that waits for every promise and takes a rejection for a falsy result
PromiseAll_IgnoresRejection(results) ==
  IF "pending" \in results THEN "pending" ELSE "fulfilled"

\* Promise.all: rejects with the first rejection, else waits for them all
PromiseAll(results) ==
  IF "rejected" \in results THEN "rejected"
  ELSE IF "pending" \in results THEN "pending"
  ELSE "fulfilled"

\* results.every(r => r)
validateResult(results) == IF \A r \in results : r = "true" THEN "true" ELSE "false"

validateSettled(calls, n) ==
  LET results == {calls[c] : c \in Awaited(calls, n)}
  IN IF PromiseAll(results) = "fulfilled" THEN validateResult(results) ELSE PromiseAll(results)

NoRun ==
  [kind |-> "none", root |-> NoScope, cb |-> FALSE, calls |-> EmptyMap,
   passes |-> "none", cbCalls |-> 0, ret |-> "undefined"]

RootCalls(r) == {n \in DOMAIN r.calls : n.p = <<>> /\ ~n.leaf}
RootStatus(r) == IF RootCalls(r) = {} THEN "none" ELSE r.calls[CHOOSE n \in RootCalls(r) : TRUE]

\* no validate() or passes() of the environment is still awaited
RunDone == RootStatus(run) # "pending" /\ run.passes # "awaiting"

\* a passes that invokes the callback whatever validate() resolved to
passes_IgnoresResult(r) ==
  IF RootStatus(r) = "rejected"
    THEN [r EXCEPT !.passes = "rejected"]
    ELSE IF ~r.cb
           THEN [r EXCEPT !.passes = "returned", !.ret = "undefined"]
           ELSE [r EXCEPT !.passes = "returned", !.ret = "cb()", !.cbCalls = @ + 1]

\* lines 169-176, after the await
passes(r) ==
  IF RootStatus(r) = "rejected"
    THEN [r EXCEPT !.passes = "rejected"]
    ELSE IF RootStatus(r) # "true" \/ ~r.cb
           THEN [r EXCEPT !.passes = "returned", !.ret = "undefined"]
           ELSE [r EXCEPT !.passes = "returned", !.ret = "cb()", !.cbCalls = @ + 1]

\* what a provider's validate()/validateSilent() leaves in the provider
leafOutcome(st, n, out) ==
  IF n.m = "validate" /\ out # "rejected"
    THEN [st EXCEPT !.pstate[n.w] = IF out = "true" THEN PassedState ELSE FailedState,
                    !.dirty = @ \cup Holders(st, n.w)]
    ELSE st

(***************************************************************************)
(* Committing the result of a handler: the watcher of every observer with  *)
(* a notified dependency re-runs its getter and calls the debounced        *)
(* onChange with the new value (lines 102-126).                            *)
(***************************************************************************)
\* a leading-edge throttle: while the timer is armed a newer value is dropped
Watch_LeadingEdge(dirty, lf, rf, ir, ob, ps, er, fl) ==
  [s \in Scopes |->
      IF s \in dirty /\ lf[s] \in Alive /\ ~timer[s].armed
        THEN WatchGetter(rf[s], ir[s], ob[s], ps, er, fl)
        ELSE timer[s]]

Watch(dirty, lf, rf, ir, ob, ps, er, fl) ==
  [s \in Scopes |->
      IF s \in dirty /\ lf[s] \in Alive
        THEN WatchGetter(rf[s], ir[s], ob[s], ps, er, fl)
        ELSE timer[s]]

Commit(n) ==
  /\ refs' = n.refs
  /\ inactiveRefs' = n.inactiveRefs
  /\ observers' = n.observers
  /\ pstate' = n.pstate
  /\ log' = n.log
  /\ ret' = n.ret
  /\ timer' = Watch(n.dirty, life', n.refs, n.inactiveRefs, n.observers, n.pstate, errors, flags)
  /\ UNCHANGED <<errors, flags>>

Tick == ops < MaxOps /\ ops' = ops + 1

(***************************************************************************)
(* Lifecycle hooks, lines 98-130.                                          *)
(***************************************************************************)
Created(c, d) ==
  /\ life[c] = "uncreated"
  /\ Parent(c) # NoScope => life[Parent(c)] \in Alive
  /\ Tick
  /\ life' = [life EXCEPT ![c] = "created"]
  /\ disabled' = [disabled EXCEPT ![c] = d]
  /\ Commit(register(St, c))
  /\ UNCHANGED run

Activated(c) ==
  /\ life[c] \in {"created", "deactivated"}
  /\ Tick
  /\ life' = [life EXCEPT ![c] = "activated"]
  /\ Commit(register(St, c))
  /\ UNCHANGED <<disabled, run>>

Deactivated(c) ==
  /\ life[c] = "activated"
  /\ Tick
  /\ life' = [life EXCEPT ![c] = "deactivated"]
  /\ Commit(unregister(St, c))
  /\ UNCHANGED <<disabled, run>>

BeforeDestroy(c) ==
  /\ life[c] \in Alive
  /\ \A d \in Scopes : Parent(d) = c => life[d] \notin Alive
  /\ Tick
  /\ life' = [life EXCEPT ![c] = "destroyed"]
  /\ Commit(unregister(St, c))
  /\ UNCHANGED <<disabled, run>>

(***************************************************************************)
(* Calls made by providers.                                                *)
(***************************************************************************)
Subscribe(h) ==
  /\ life[HScope(h)] \in Alive
  /\ Tick
  /\ UNCHANGED <<life, disabled, run>>
  /\ Commit(subscribe(St, HScope(h), h, "provider"))

\* a teardown that removes the entry of its id only when it is h's own
Unsubscribe_OwnHandle(h) ==
  /\ life[HScope(h)] \in Alive
  /\ Tick
  /\ UNCHANGED <<life, disabled, run>>
  /\ Commit(IF HId(h) \in DOMAIN refs[HScope(h)] /\ refs[HScope(h)][HId(h)] = h
              THEN unsubscribe(St, HScope(h), HId(h), "provider")
              ELSE St)

\* the teardown of provider h
Unsubscribe(h) ==
  /\ life[HScope(h)] \in Alive
  /\ Tick
  /\ UNCHANGED <<life, disabled, run>>
  /\ Commit(unsubscribe(St, HScope(h), HId(h), "provider"))

\* a registered provider changes its own state (input, validation)
ProviderChange(h, ps) ==
  /\ Holders(St, h) # {}
  /\ pstate[h] # ps
  /\ Tick
  /\ UNCHANGED <<life, disabled, run>>
  /\ Commit([St EXCEPT !.pstate[h] = ps, !.dirty = Holders(St, h)])

(***************************************************************************)
(* Calls of the public methods.                                            *)
(***************************************************************************)
Validate(s, silent) ==
  /\ life[s] \in Alive
  /\ RunDone
  /\ Tick
  /\ run' = [NoRun EXCEPT !.kind = "validate", !.root = s,
                          !.calls = [n \in validate(s, <<>>, silent) |-> "pending"]]
  /\ log' = <<>>
  /\ ret' = "promise"
  /\ UNCHANGED <<life, refs, inactiveRefs, observers, errors, flags, timer, pstate, disabled>>

Passes(s, cb) ==
  /\ life[s] \in Alive
  /\ RunDone
  /\ Tick
  /\ run' = [NoRun EXCEPT !.kind = "passes", !.root = s, !.cb = cb, !.passes = "awaiting",
                          !.calls = [n \in validate(s, <<>>, FALSE) |-> "pending"]]
  /\ log' = <<>>
  /\ ret' = "promise"
  /\ UNCHANGED <<life, refs, inactiveRefs, observers, errors, flags, timer, pstate, disabled>>

\* the promise of a provider's validate()/validateSilent() settles
LeafSettle(n, out) ==
  /\ n \in DOMAIN run.calls
  /\ n.leaf
  /\ run.calls[n] = "pending"
  /\ run' = [run EXCEPT !.calls[n] = out]
  /\ UNCHANGED <<life, disabled, ops>>
  /\ Commit(leafOutcome(St, n, out))

\* the Promise.all awaited by a validate() call settles
ValidateSettle(n) ==
  /\ n \in DOMAIN run.calls
  /\ ~n.leaf
  /\ run.calls[n] = "pending"
  /\ validateSettled(run.calls, n) # "pending"
  /\ run' = [run EXCEPT !.calls[n] = validateSettled(run.calls, n)]
  /\ UNCHANGED <<life, refs, inactiveRefs, observers, errors, flags, timer, pstate,
                 disabled, log, ret, ops>>

\* passes() resumes after its await
PassesResume ==
  /\ run.passes = "awaiting"
  /\ RootStatus(run) # "pending"
  /\ run' = passes(run)
  /\ UNCHANGED <<life, refs, inactiveRefs, observers, errors, flags, timer, pstate,
                 disabled, log, ret, ops>>

Reset(s) ==
  /\ life[s] \in Alive
  /\ Tick
  /\ UNCHANGED <<life, disabled, run>>
  /\ Commit(reset(St, s))

SetErrors(s, errs) ==
  /\ life[s] \in Alive
  /\ Tick
  /\ UNCHANGED <<life, disabled, run>>
  /\ Commit(setErrors(St, s, errs))

(***************************************************************************)
(* The debounce timer of an observer fires: onChange, lines 102-105.       *)
(***************************************************************************)
\* an onChange that writes the errors and leaves the flags for later
Fire_ErrorsOnly(s) ==
  /\ timer[s].armed
  /\ errors' = [errors EXCEPT ![s] = timer[s].errors]
  /\ flags' = flags
  /\ timer' = [Watch({p \in Scopes : s \in Range(observers[p])}, life, refs,
                     inactiveRefs, observers, pstate, errors', flags')
                 EXCEPT ![s] = Unarmed]
  /\ UNCHANGED <<life, refs, inactiveRefs, observers, pstate, disabled, log, ret, run, ops>>

\* an onChange whose write does not reach the watcher of the parent
Fire_NoNotify(s) ==
  /\ timer[s].armed
  /\ errors' = [errors EXCEPT ![s] = timer[s].errors]
  /\ flags' = [flags EXCEPT ![s] = timer[s].flags]
  /\ timer' = [timer EXCEPT ![s] = Unarmed]
  /\ UNCHANGED <<life, refs, inactiveRefs, observers, pstate, disabled, log, ret, run, ops>>

Fire(s) ==
  /\ timer[s].armed
  /\ errors' = [errors EXCEPT ![s] = timer[s].errors]
  /\ flags' = [flags EXCEPT ![s] = timer[s].flags]
  /\ timer' = [Watch({p \in Scopes : s \in Range(observers[p])}, life, refs,
                     inactiveRefs, observers, pstate, errors', flags')
                 EXCEPT ![s] = Unarmed]
  /\ UNCHANGED <<life, refs, inactiveRefs, observers, pstate, disabled, log, ret, run, ops>>

Init ==
  /\ life = [s \in Scopes |-> IF s = "R" THEN "created" ELSE "uncreated"]
  /\ refs = [s \in Scopes |-> EmptyMap]
  /\ inactiveRefs = [s \in Scopes |-> EmptyMap]
  /\ observers = [s \in Scopes |-> <<>>]
  /\ errors = [s \in Scopes |-> EmptyMap]
  /\ flags = [s \in Scopes |-> EmptyMap]
  /\ timer = [s \in Scopes |-> Unarmed]
  /\ pstate = [h \in Handles |-> FreshState]
  /\ disabled = [s \in Scopes |-> FALSE]
  /\ log = <<>>
  /\ ret = "undefined"
  /\ run = NoRun
  /\ ops = 0

Lifecycle ==
  \/ \E c \in Scopes, d \in BOOLEAN : Created(c, d)
  \/ \E c \in Scopes : Activated(c)
  \/ \E c \in Scopes : Deactivated(c)
  \/ \E c \in Scopes : BeforeDestroy(c)

Membership ==
  \/ \E h \in Handles : Subscribe(h)
  \/ \E h \in Handles : Unsubscribe(h)

Changes ==
  \/ \E h \in Handles, ps \in {PassedState, FailedState} : ProviderChange(h, ps)
  \/ \E s \in Scopes : Reset(s)
  \/ \E s \in Scopes, errs \in ErrInputs : SetErrors(s, errs)

Validation ==
  \/ \E s \in Scopes, silent \in BOOLEAN : Validate(s, silent)
  \/ \E s \in Scopes, cb \in BOOLEAN : Passes(s, cb)
  \/ \E n \in DOMAIN run.calls, out \in {"true", "false", "rejected"} : LeafSettle(n, out)
  \/ \E n \in DOMAIN run.calls : ValidateSettle(n)
  \/ PassesResume

Timers == \E s \in Scopes : Fire(s)

Next == Lifecycle \/ Membership \/ Changes \/ Validation \/ Timers

Spec == Init /\ [][Next]_vars

\* the registry, the cache and the aggregate, without validate() and passes()
NextRegistry == Lifecycle \/ Membership \/ Changes \/ Timers

SpecRegistry == Init /\ [][NextRegistry]_vars

\* the registry and the validate()/passes() fan-out; no timer fires
NextValidate == Lifecycle \/ Membership \/ Validation

SpecValidate == Init /\ [][NextValidate]_vars

\* every hook and every method; no timer fires
NextMethods == Lifecycle \/ Membership \/ Changes \/ Validation

SpecMethods == Init /\ [][NextMethods]_vars

\* the registry, non-silent validate() and the timers: what validate() leaves
\* in the providers is published
NextDisplay ==
  \/ Lifecycle
  \/ Membership
  \/ \E s \in Scopes : Validate(s, FALSE)
  \/ \E n \in DOMAIN run.calls, out \in {"true", "false", "rejected"} : LeafSettle(n, out)
  \/ \E n \in DOMAIN run.calls : ValidateSettle(n)
  \/ Timers

SpecDisplay == Init /\ [][NextDisplay]_vars

\* the registry, the changes of the providers and the timers; a timeout that
\* was set runs after its 16 ms unless it is replaced, so every timer that
\* stays armed fires
NextPropagate ==
  \/ Lifecycle
  \/ Membership
  \/ \E h \in Handles, ps \in {PassedState, FailedState} : ProviderChange(h, ps)
  \/ Timers

SpecPropagate ==
  Init /\ [][NextPropagate]_vars /\ \A s \in Scopes : WF_vars(Fire(s))

(***************************************************************************)
(* Registry claims.                                                        *)
(***************************************************************************)
\* what a caller can observe of the registry of an observer
Registry(st) == <<st.refs, st.inactiveRefs, st.observers>>

AllIds == Ids \cup {Vid(s) : s \in Scopes}
Kinds == {"provider", "observer"}

\* C1: no id is a key of both refs and inactiveRefs of an observer, in any
\* state reached after a subscribe or unsubscribe call returned.
C1_Disjoint ==
  \A s \in Scopes : DOMAIN refs[s] \cap DOMAIN inactiveRefs[s] = {}

\* the state a provider hands over when it is snapshotted or restored
Snapshot(st, h) ==
  [flags |-> st.pstate[h].flags, errors |-> st.pstate[h].errors,
   failedRules |-> st.pstate[h].failedRules]

\* M (persist) is registered under id in s, is unsubscribed, and h is
\* subscribed next: h was handed M's flags through setFlags and M's errors
\* and failedRules through applyResult, holds them, and the cache entry of
\* the id is gone
RoundTrip(s, id, h) ==
  LET M == refs[s][id]
      removed == unsubscribe(St, s, id, "provider")
      back == subscribe([removed EXCEPT !.log = <<>>], s, h, "provider")
  IN /\ Len(back.log) = 2
     /\ back.log[1].w = h /\ back.log[1].m = "setFlags"
     /\ back.log[1].arg = pstate[M].flags
     /\ back.log[2].w = h /\ back.log[2].m = "applyResult"
     /\ back.log[2].arg.errors = pstate[M].errors
     /\ back.log[2].arg.failedRules = pstate[M].failedRules
     /\ Snapshot(back, h) = Snapshot(St, M)
     /\ id \notin DOMAIN back.inactiveRefs[s]
     /\ back.refs[s][id] = h

\* C2: when a member with persist = true is unsubscribed and a new handle of
\* the same id is subscribed next, the new handle has received the member's
\* flags through setFlags and its errors and failedRules through applyResult,
\* and the cache has no entry for the id.
C2_RoundTrip ==
  \A s \in Scopes : \A id \in DOMAIN refs[s] : \A h \in Handles :
      (HPersist(refs[s][id]) /\ HScope(h) = s /\ HId(h) = id) => RoundTrip(s, id, h)

NotActive(st, s, id, kind) ==
  IF kind = "provider"
    THEN id \notin DOMAIN st.refs[s]
    ELSE \A i \in DOMAIN st.observers[s] : Vid(st.observers[s][i]) # id

\* C3: for either kind, a second unsubscribe(id, kind) in a row leaves refs,
\* inactiveRefs and observers as the first one did, and unsubscribing an id
\* that is not registered changes nothing.
C3_Idempotent ==
  \A s \in Scopes, id \in AllIds, kind \in Kinds :
     LET once == unsubscribe(St, s, id, kind)
         twice == unsubscribe(once, s, id, kind)
     IN /\ Registry(twice) = Registry(once)
        /\ NotActive(St, s, id, kind) => once = St

(***************************************************************************)
(* Aggregate claims.                                                       *)
(***************************************************************************)
\* the flags of the candidates of s: registered providers, cached entries and
\* nested observers
CandFlags(s) ==
  {pstate[refs[s][k]].flags : k \in DOMAIN refs[s]}
  \cup {inactiveRefs[s][k].flags : k \in DOMAIN inactiveRefs[s]}
  \cup {flags[observers[s][i]] : i \in DOMAIN observers[s]}

AndOf(s, flag) == \A c \in CandFlags(s) : Truthy(c, flag)
OrOf(s, flag) == \E c \in CandFlags(s) : Truthy(c, flag)

\* the watcher of s is running, it has written the aggregate at least once and
\* no newer value is waiting in the debounce timer
Recomputed(s) == life[s] \in Alive /\ ~timer[s].armed /\ DOMAIN flags[s] # {}

\* C4: once the recompute for the current membership has been applied, each of
\* the 11 aggregate flags is its fixed reduction over the candidates: AND for
\* pristine, untouched, valid, validated, passed and OR for dirty, touched,
\* invalid, pending, changed, failed.
C4_FlagReductions ==
  \A s \in Scopes :
     Recomputed(s) =>
        flags[s] =
          [pristine |-> AndOf(s, "pristine"), untouched |-> AndOf(s, "untouched"),
           valid |-> AndOf(s, "valid"), validated |-> AndOf(s, "validated"),
           passed |-> AndOf(s, "passed"),
           dirty |-> OrOf(s, "dirty"), touched |-> OrOf(s, "touched"),
           invalid |-> OrOf(s, "invalid"), pending |-> OrOf(s, "pending"),
           changed |-> OrOf(s, "changed"), failed |-> OrOf(s, "failed")]

\* two registered providers, one valid and one invalid, after the recompute
C4_Witness ==
  /\ Recomputed("R")
  /\ DOMAIN refs["R"] = {"a", "b"}
  /\ pstate[refs["R"]["a"]].flags.valid
  /\ pstate[refs["R"]["b"]].flags.invalid
  /\ ~flags["R"].valid
  /\ flags["R"].invalid

(***************************************************************************)
(* Validation claims.                                                      *)
(***************************************************************************)
\* the validate() calls of the run in flight, and the calls each one fans out
\* to: the providers of its observer and the validate() of the nested observers
ScopeCalls == {n \in DOMAIN run.calls : ~n.leaf}
Members(n) == {c \in DOMAIN run.calls : c.leaf /\ c.p = n.p}
Nested(n) ==
  {c \in DOMAIN run.calls :
      ~c.leaf /\ Len(c.p) = Len(n.p) + 1 /\ SubSeq(c.p, 1, Len(n.p)) = n.p}
FanOut(n) == Members(n) \cup Nested(n)

Resolved(c) == run.calls[c] \in {"true", "false"}
AllTrue(n) == \A c \in FanOut(n) : run.calls[c] = "true"

\* validate() or passes() was the last call and nothing has settled yet: the
\* registry is the one the calls were made on
Issued ==
  /\ run.kind # "none"
  /\ ret = "promise"
  /\ \A n \in DOMAIN run.calls : run.calls[n] = "pending"

\* C5: validate({silent}) calls the providers that are not disabled, through
\* validateSilent when silent and through validate otherwise, and the
\* validate({silent}) of the nested observers that are not disabled, and
\* nothing else; once they all resolved it resolves to true iff each of them
\* resolved to true, which for an observer with nothing to call is true.
C5_ValidateResult ==
  /\ run.kind # "none" =>
       \E r \in DOMAIN run.calls : RootCalls(run) = {r} /\ r.w = run.root
  /\ Issued =>
       \A n \in ScopeCalls :
          /\ \A c \in Members(n) :
                /\ \E k \in DOMAIN refs[n.w] : refs[n.w][k] = c.w
                /\ ~HDisabled(c.w)
                /\ c.silent = n.silent
                /\ c.m = IF n.silent THEN "validateSilent" ELSE "validate"
          /\ \A c \in Nested(n) :
                /\ c.p[Len(c.p)] \in DOMAIN observers[n.w]
                /\ c.w = observers[n.w][c.p[Len(c.p)]]
                /\ ~disabled[c.w]
                /\ c.silent = n.silent
                /\ c.m = "validate"
          /\ \A k \in DOMAIN refs[n.w] :
                ~HDisabled(refs[n.w][k]) => \E c \in Members(n) : c.w = refs[n.w][k]
          /\ \A i \in DOMAIN observers[n.w] :
                ~disabled[observers[n.w][i]] => \E c \in Nested(n) : c.p = Append(n.p, i)
  /\ \A n \in ScopeCalls :
        /\ Resolved(n) =>
             /\ \A c \in FanOut(n) : Resolved(c)
             /\ run.calls[n] = "true" <=> AllTrue(n)
        /\ (run.calls[n] = "pending" /\ \A c \in FanOut(n) : Resolved(c)) =>
             validateSettled(run.calls, n) = IF AllTrue(n) THEN "true" ELSE "false"

\* a silent validate() of R resolved to true: R holds a disabled provider and
\* an enabled one and a disabled nested observer, and only the enabled
\* provider was called, through validateSilent
C5_Witness ==
  /\ run.kind = "validate" /\ run.root = "R"
  /\ RootStatus(run) = "true"
  /\ DOMAIN refs["R"] = {"a", "b"}
  /\ refs["R"]["a"] = "h3" /\ refs["R"]["b"] = "h4"
  /\ observers["R"] = <<"A">> /\ disabled["A"]
  /\ {c.w : c \in DOMAIN run.calls} = {"R", "h4"}
  /\ \A c \in DOMAIN run.calls : c.leaf => c.m = "validateSilent"

\* C6: validate() calls every eligible provider and nested observer exactly
\* once, all of them before any resolves, and it does not resolve while a
\* call it fanned out is pending.
C6_OnceThenAll ==
  /\ Issued =>
       \A n \in ScopeCalls :
          /\ \A k \in DOMAIN refs[n.w] :
                ~HDisabled(refs[n.w][k]) =>
                    Cardinality({c \in Members(n) : c.w = refs[n.w][k]}) = 1
          /\ \A o \in Range(observers[n.w]) :
                ~disabled[o] => Cardinality({c \in Nested(n) : c.w = o}) = 1
  /\ \A n \in ScopeCalls :
        Resolved(n) => \A c \in FanOut(n) : run.calls[c] # "pending"

\* C7: when a call fanned out by a validate() rejects, that validate() never
\* resolves to a boolean: it rejects, and so does the validate() of every
\* ancestor; passes() rejects too and does not invoke its callback.
C7_RejectionPropagates ==
  /\ \A n \in ScopeCalls :
        (\E c \in FanOut(n) : run.calls[c] = "rejected") =>
            /\ ~Resolved(n)
            /\ run.calls[n] = "pending" => validateSettled(run.calls, n) = "rejected"
  /\ (run.kind = "passes" /\ RootStatus(run) = "rejected") =>
        /\ run.passes \in {"awaiting", "rejected"}
        /\ run.cbCalls = 0
        /\ passes(run).passes = "rejected"
        /\ passes(run).cbCalls = 0

\* a provider two observers below R rejected; the validate() of B, of A and of
\* R rejected and passes(cb) rejected without invoking cb
C7_Witness ==
  /\ run.kind = "passes" /\ run.root = "R" /\ run.cb
  /\ \E c \in DOMAIN run.calls :
        c.leaf /\ c.w = "h5" /\ Len(c.p) = 2 /\ run.calls[c] = "rejected"
  /\ {n.w : n \in ScopeCalls} = {"R", "A", "B"}
  /\ \A n \in ScopeCalls : run.calls[n] = "rejected"
  /\ run.passes = "rejected"
  /\ run.cbCalls = 0

\* C8: passes(cb) runs a non-silent validate(); cb is invoked at most once,
\* only after that validate() resolved, only if it resolved to true and cb was
\* supplied, and then passes returns what cb returned; it returns nothing when
\* the result is false or no cb was given.
C8_PassesCallback ==
  run.kind = "passes" =>
     /\ \A c \in DOMAIN run.calls : ~c.silent /\ c.m = "validate"
     /\ run.cbCalls <= 1
     /\ run.passes = "awaiting" => run.cbCalls = 0
     /\ run.cbCalls = 1 =>
          RootStatus(run) = "true" /\ run.cb /\ run.passes = "returned"
     /\ run.passes = "returned" =>
          /\ RootStatus(run) \in {"true", "false"}
          /\ IF RootStatus(run) = "true" /\ run.cb
               THEN run.cbCalls = 1 /\ run.ret = "cb()"
               ELSE run.cbCalls = 0 /\ run.ret = "undefined"

\* passes(cb) on an observer with a provider that resolved valid: cb ran once
C8_Witness ==
  /\ run.kind = "passes" /\ run.cb
  /\ \E c \in DOMAIN run.calls : c.leaf /\ run.calls[c] = "true"
  /\ RootStatus(run) = "true"
  /\ run.passes = "returned"
  /\ run.cbCalls = 1
  /\ run.ret = "cb()"

(***************************************************************************)
(* reset() and setErrors() claims.                                         *)
(***************************************************************************)
\* C9: reset() first deletes every cached entry and then calls reset() once on
\* every provider and every nested observer; when it returns the cache is
\* empty, refs and observers are unchanged and it returned nothing.
C9_ResetOnce ==
  \A s \in Scopes :
     LET after == reset(St, s)
         lg == after.log
         dels == {i \in DOMAIN lg : lg[i].m = "$delete" /\ lg[i].w = s}
         resets(x) == {i \in DOMAIN lg : lg[i].m = "reset" /\ lg[i].w = x}
     IN /\ {lg[i].arg : i \in dels} = DOMAIN inactiveRefs[s]
        /\ \A i \in dels : \A j \in DOMAIN lg : lg[j].m = "reset" => i < j
        /\ \A x \in Range(refs[s]) \cup Range(observers[s]) :
              Cardinality(resets(x)) = 1
        /\ after.inactiveRefs[s] = EmptyMap
        /\ after.refs = refs
        /\ after.observers = observers
        /\ after.ret = "undefined"

\* the observers reached from s through observers, s included
Below(s) ==
  LET c1 == Range(observers[s])
      c2 == UNION {Range(observers[c]) : c \in c1}
      c3 == UNION {Range(observers[c]) : c \in c2}
  IN {s} \cup c1 \cup c2 \cup c3

\* C10: setErrors(errors) calls setErrors(errors[id]) on exactly the registered
\* providers whose id is a key of errors, here and in every observer below;
\* a key with no registered provider changes nothing, in the registry or in a
\* cached entry; every nested observer, disabled or not, is handed the same
\* map.
C10_SetErrors ==
  \A s \in Scopes, errs \in ErrInputs :
     LET after == setErrors(St, s, errs)
         lg == after.log
         toLeaf == {i \in DOMAIN lg : lg[i].w \in Handles}
         toScope == {i \in DOMAIN lg : lg[i].w \in Scopes}
         targets == {refs[x[1]][x[2]] :
                       x \in {y \in Below(s) \X Ids :
                                y[2] \in DOMAIN refs[y[1]] \cap DOMAIN errs}}
     IN /\ \A i \in DOMAIN lg : lg[i].m = "setErrors"
        /\ {lg[i].w : i \in toLeaf} = targets
        /\ \A i \in toLeaf : lg[i].arg = errs[HId(lg[i].w)]
        /\ {lg[i].w : i \in toScope} = Below(s) \ {s}
        /\ \A i \in toScope : lg[i].arg = errs
        /\ after.refs = refs
        /\ after.inactiveRefs = inactiveRefs
        /\ after.observers = observers
        /\ \A h \in Handles :
              after.pstate[h] =
                 IF h \in targets
                   THEN [pstate[h] EXCEPT !.errors = errs[HId(h)]]
                   ELSE pstate[h]
        /\ after.ret = "undefined"

\* setErrors({a, b}) on R went through A and B to the provider of id a
\* registered in B; no provider of id b is registered there
C10_Witness ==
  /\ Len(log) = 3
  /\ log[1].w = "A" /\ log[1].m = "setErrors" /\ DOMAIN log[1].arg = {"a", "b"}
  /\ log[2].w = "B" /\ log[2].m = "setErrors"
  /\ log[3].w = "h5" /\ log[3].m = "setErrors" /\ log[3].arg = <<"bad", "worse">>
  /\ pstate["h5"].errors = <<"bad", "worse">>
  /\ DOMAIN refs["B"] = {"a"}

(***************************************************************************)
(* Debounce and publication claims.                                        *)
(***************************************************************************)
\* what the watcher getter of s returns in the current state
Current(s) == WatchGetter(refs[s], inactiveRefs[s], observers[s], pstate, errors, flags)

\* the value waiting in the debounce timer of a running observer is the one
\* computed after the last change
TimerFresh(s) == (life[s] \in Alive /\ timer[s].armed) => timer[s] = Current(s)

\* the debounced onChange of s runs in this step
Writes(s) == timer[s].armed /\ ~timer'[s].armed

\* C11: the changes made while the debounce timer is armed are coalesced:
\* errors and flags are written only when the timer fires, once per armed
\* period, and the value written is the one computed after the last change.
C11_Coalesce ==
  /\ [](\A s \in Scopes : TimerFresh(s))
  /\ [][\A s \in Scopes :
          /\ (errors'[s] # errors[s] \/ flags'[s] # flags[s]) => Writes(s)
          /\ Writes(s) => /\ errors'[s] = timer[s].errors
                          /\ flags'[s] = timer[s].flags
                          /\ timer'[s] = Unarmed]_vars

\* three changes of R (two providers subscribed, one of them failed) and the
\* aggregate of the state after the third one written
C11_Witness ==
  /\ ops = 3
  /\ DOMAIN refs["R"] = {"a", "b"}
  /\ pstate[refs["R"]["b"]] = FailedState
  /\ ~timer["R"].armed
  /\ DOMAIN errors["R"] = {"a", "b"}
  /\ errors["R"]["a"] = <<>> /\ errors["R"]["b"] = <<"required">>
  /\ flags["R"] = Current("R").flags
  /\ flags["R"].invalid

\* C12: the published errors and flags of an observer are always the two
\* halves of one run of the watcher getter: a step that changes either writes
\* both from the pending pair, which for a running observer is the getter's
\* value on the membership and member states of that instant, whatever
\* subscribe, unsubscribe, member changes and timer firings came before.
C12_OneSnapshot ==
  [][\A s \in Scopes :
        (errors'[s] # errors[s] \/ flags'[s] # flags[s]) =>
            /\ <<errors'[s], flags'[s]>> = <<timer[s].errors, timer[s].flags>>
            /\ life[s] \in Alive =>
                 <<errors'[s], flags'[s]>> = <<Current(s).errors, Current(s).flags>>]_vars

\* R published the pair computed when provider b was subscribed and fresh; b
\* failed since, and the newer pair is still waiting in the timer
C12_Witness ==
  /\ DOMAIN refs["R"] = {"b"}
  /\ pstate[refs["R"]["b"]] = FailedState
  /\ errors["R"] = [b |-> <<>>]
  /\ flags["R"] = FreshFlags
  /\ timer["R"].armed
  /\ timer["R"].errors = [b |-> <<"required">>]

(***************************************************************************)
(* What the aggregate flags depend on.                                     *)
(***************************************************************************)
FlagNames == {"pristine", "dirty", "touched", "untouched", "valid", "invalid",
              "pending", "validated", "changed", "passed", "failed"}
AndFlags == {"pristine", "untouched", "valid", "validated", "passed"}

\* a flags object read as the 11 booleans the reductions see
AsBooleans(fl) == [f \in FlagNames |-> Truthy(fl, f)]

\* the flags of the registered providers and nested observers of s in st, and
\* of its cached entries
ActiveFlags(st, s) ==
  {AsBooleans(st.pstate[st.refs[s][k]].flags) : k \in DOMAIN st.refs[s]}
  \cup {AsBooleans(flags[st.observers[s][i]]) : i \in DOMAIN st.observers[s]}
CachedFlags(st, s) ==
  {AsBooleans(st.inactiveRefs[s][k].flags) : k \in DOMAIN st.inactiveRefs[s]}

ReduceFlags(cands) ==
  [f \in FlagNames |->
      IF f \in AndFlags THEN \A c \in cands : c[f] ELSE \E c \in cands : c[f]]

\* the flags a recompute of s publishes in st
RecomputedFlags(st, s) ==
  WatchGetter(st.refs[s], st.inactiveRefs[s], st.observers[s], st.pstate, errors, flags).flags

\* s after a persisting provider h that is not registered subscribed and was
\* unsubscribed again: the same providers and nested observers, another cache
CacheVariants(s) ==
  {unsubscribe(subscribe(St, s, h, "provider"), s, HId(h), "provider") :
     h \in {g \in Handles : HScope(g) = s /\ HPersist(g) /\ HId(g) \notin DOMAIN refs[s]}}

\* C13 (as stated): the flags after recompute depend on the registered
\* providers and the nested observers only: two observers that agree on
\* those have the same flags, whatever their caches hold.
C13_PureOfActive ==
  /\ \A s, t \in Scopes :
        (Recomputed(s) /\ Recomputed(t) /\ ActiveFlags(St, s) = ActiveFlags(St, t))
           => flags[s] = flags[t]
  /\ \A s \in Scopes : \A v \in CacheVariants(s) :
        Recomputed(s) =>
           /\ ActiveFlags(v, s) = ActiveFlags(St, s)
           /\ RecomputedFlags(v, s) = flags[s]

\* C13 (amended): the flags after recompute depend on the registered
\* providers, the cached entries and the nested observers, and on nothing
\* else: two observers that agree on the flags these carry have the same
\* flags whatever calls led there, and the flags are the reduction over the
\* three together, cached entries included.
C13_PureOfCandidates ==
  /\ \A s, t \in Scopes :
        (/\ Recomputed(s) /\ Recomputed(t)
         /\ ActiveFlags(St, s) \cup CachedFlags(St, s)
              = ActiveFlags(St, t) \cup CachedFlags(St, t))
           => flags[s] = flags[t]
  /\ \A s \in Scopes : \A v \in CacheVariants(s) :
        Recomputed(s) =>
           /\ ActiveFlags(v, s) = ActiveFlags(St, s)
           /\ RecomputedFlags(v, s) = ReduceFlags(ActiveFlags(v, s) \cup CachedFlags(v, s))
           /\ flags[s] = ReduceFlags(ActiveFlags(St, s) \cup CachedFlags(St, s))

\* two observers after their recompute that agree on the flags of their
\* candidates although their caches differ, and one whose cached entry
\* decides its flags
C13_Witness ==
  /\ \E s, t \in Scopes :
        /\ s # t /\ Recomputed(s) /\ Recomputed(t)
        /\ ActiveFlags(St, s) \cup CachedFlags(St, s)
             = ActiveFlags(St, t) \cup CachedFlags(St, t)
        /\ CachedFlags(St, s) # CachedFlags(St, t)
        /\ flags[s] = flags[t]
  /\ \E u \in Scopes :
        /\ Recomputed(u)
        /\ inactiveRefs[u] # EmptyMap
        /\ flags[u] # ReduceFlags(ActiveFlags(St, u))

(***************************************************************************)
(* Persistence cache claims.                                               *)
(***************************************************************************)
\* the cached entry of id in s is gone after this step
Purged(s, id) == id \in DOMAIN inactiveRefs[s] /\ id \notin DOMAIN inactiveRefs'[s]

\* this step is a subscribe on s that restored the cached state of id into
\* the provider it registered
RestoredBy(s, id) ==
  /\ id \in DOMAIN refs'[s]
  /\ Len(log') = 2
  /\ log'[1].m = "setFlags" /\ log'[1].w = refs'[s][id]
  /\ log'[2].m = "applyResult" /\ log'[2].w = refs'[s][id]

\* this step is a reset(), of s or of an observer above it, that deleted the
\* cached entry of id in s
ResetBy(s, id) ==
  \E i \in DOMAIN log' : log'[i].m = "$delete" /\ log'[i].w = s /\ log'[i].arg = id

\* C14 (as stated): a cached entry stays until a provider with its id
\* subscribes again; no other operation removes it.
C14_StaysUntilSubscribe ==
  [][\A s \in Scopes, id \in Ids : Purged(s, id) => RestoredBy(s, id)]_vars

\* C14 (amended): a cached entry stays until a provider with its id subscribes
\* and is restored, or until reset() of the observer or of an observer above
\* it, which deletes every cached entry; no other operation removes it.
C14_StaysUntilSubscribeOrReset ==
  [][\A s \in Scopes, id \in Ids :
        Purged(s, id) => (RestoredBy(s, id) \/ ResetBy(s, id))]_vars

\* the entry cached for id a in R is still there after passes() of R ran to
\* its end, and the recompute waiting in the timer of R counts it
C14_Witness ==
  /\ "a" \in DOMAIN inactiveRefs["R"]
  /\ "a" \notin DOMAIN refs["R"]
  /\ run.kind = "passes" /\ run.root = "R" /\ run.passes = "returned"
  /\ timer["R"].armed
  /\ "a" \in DOMAIN timer["R"].errors

\* C15: unsubscribe(id, 'provider') of a registered provider whose persist is
\* false deletes refs[id] and writes nothing to inactiveRefs; when persist is
\* true it stores {id, flags, errors, failedRules} of the provider under
\* inactiveRefs[id] and deletes refs[id]; nothing else changes.
C15_RemovalDecision ==
  \A s \in Scopes : \A id \in DOMAIN refs[s] :
     LET h == refs[s][id]
         after == unsubscribe(St, s, id, "provider")
     IN /\ DOMAIN after.refs[s] = DOMAIN refs[s] \ {id}
        /\ \A k \in DOMAIN after.refs[s] : after.refs[s][k] = refs[s][k]
        /\ \A t \in Scopes \ {s} :
              after.refs[t] = refs[t] /\ after.inactiveRefs[t] = inactiveRefs[t]
        /\ IF HPersist(h)
             THEN /\ DOMAIN after.inactiveRefs[s] = DOMAIN inactiveRefs[s] \cup {id}
                  /\ after.inactiveRefs[s][id] =
                       [id |-> id, flags |-> pstate[h].flags, errors |-> pstate[h].errors,
                        failedRules |-> pstate[h].failedRules]
                  /\ \A k \in DOMAIN inactiveRefs[s] \ {id} :
                        after.inactiveRefs[s][k] = inactiveRefs[s][k]
             ELSE after.inactiveRefs[s] = inactiveRefs[s]
        /\ after.observers = observers
        /\ after.pstate = pstate
        /\ after.log = <<>>

\* the persisting provider of id a failed and was unsubscribed from R: its
\* snapshot is cached and the provider of id b is still registered
C15_Witness ==
  /\ DOMAIN refs["R"] = {"b"}
  /\ DOMAIN inactiveRefs["R"] = {"a"}
  /\ inactiveRefs["R"]["a"] =
       [id |-> "a", flags |-> FailedFlags, errors |-> <<"required">>,
        failedRules |-> [required |-> "required"]]
  /\ log = <<>>

\* C16: every subscribe of a provider whose id has a cached entry replays the
\* cached flags through setFlags and the cached errors and failedRules through
\* applyResult into that provider and deletes the entry before it returns, so
\* that no recompute sees the provider next to its cached entry.
C16_RestoreAlways ==
  \A s \in Scopes : \A h \in Handles :
     (HScope(h) = s /\ HId(h) \in DOMAIN inactiveRefs[s]) =>
        LET state == inactiveRefs[s][HId(h)]
            after == subscribe(St, s, h, "provider")
        IN /\ Len(after.log) = 2
           /\ after.log[1] = [w |-> h, m |-> "setFlags", arg |-> state.flags]
           /\ after.log[2].w = h /\ after.log[2].m = "applyResult"
           /\ after.log[2].arg.errors = state.errors
           /\ after.log[2].arg.failedRules = state.failedRules
           /\ Snapshot(after, h) =
                [flags |-> state.flags, errors |-> state.errors,
                 failedRules |-> state.failedRules]
           /\ after.refs[s][HId(h)] = h
           /\ HId(h) \notin DOMAIN after.inactiveRefs[s]

(***************************************************************************)
(* Registration claims.                                                    *)
(***************************************************************************)
\* C17: every registered provider is stored under its own id, so an id occurs
\* once in refs; subscribing h2 under the id of a registered h1 replaces h1:
\* refs[id] is h2, h1 is in refs no more and the other entries are unchanged.
C17_Replaces ==
  /\ \A s \in Scopes : \A k \in DOMAIN refs[s] :
        HId(refs[s][k]) = k /\ Len(values(refs[s])) = Cardinality(DOMAIN refs[s])
  /\ \A s \in Scopes : \A h2 \in Handles :
        (HScope(h2) = s /\ HId(h2) \in DOMAIN refs[s] /\ refs[s][HId(h2)] # h2) =>
           LET h1 == refs[s][HId(h2)]
               after == subscribe(St, s, h2, "provider")
           IN /\ DOMAIN after.refs[s] = DOMAIN refs[s]
              /\ after.refs[s][HId(h2)] = h2
              /\ \A k \in DOMAIN after.refs[s] : after.refs[s][k] # h1
              /\ \A k \in DOMAIN refs[s] \ {HId(h2)} : after.refs[s][k] = refs[s][k]
              /\ \A t \in Scopes \ {s} : after.refs[t] = refs[t]
              /\ after.observers = observers

\* h1 was registered under id a in R and failed; h2 subscribed under the same
\* id and took its place, next to the provider of id b
C17_Witness ==
  /\ ops = 4
  /\ DOMAIN refs["R"] = {"a", "b"}
  /\ refs["R"]["a"] = "h2"
  /\ pstate["h1"] = FailedState
  /\ pstate["h2"] = FreshState
  /\ inactiveRefs["R"] = EmptyMap

(***************************************************************************)
(* Disabled providers and observers.                                       *)
(***************************************************************************)
\* the candidate with flags fl enters every reduction of the flags of s
EntersFlags(s, fl) ==
  \A f \in FlagNames :
     IF f \in AndFlags THEN flags[s][f] => Truthy(fl, f) ELSE Truthy(fl, f) => flags[s][f]

C19_FlagsDefined ==
  \A s \in Scopes :
     life[s] \in Alive =>
        /\ DOMAIN flags[s] = FlagNames
        /\ \A f \in FlagNames : flags[s][f] \in BOOLEAN
        /\ (refs[s] = EmptyMap /\ inactiveRefs[s] = EmptyMap /\ observers[s] = <<>>
              /\ ~timer[s].armed)
             => flags[s] = ReduceFlags({})

\* C20: after a recompute is applied, errors has exactly one key per
\* candidate id and maps the id of every candidate to that candidate's
\* errors; for every active member it holds that member's errors, also when
\* a cached entry carries the same id.
CandidateIds(s) ==
  DOMAIN refs[s] \cup DOMAIN inactiveRefs[s]
    \cup {Vid(observers[s][i]) : i \in DOMAIN observers[s]}

C20_ErrorsPerCandidate ==
  \A s \in Scopes :
     Recomputed(s) =>
        /\ DOMAIN errors[s] = CandidateIds(s)
        /\ \A k \in DOMAIN refs[s] : errors[s][k] = pstate[refs[s][k]].errors
        /\ \A k \in DOMAIN inactiveRefs[s] : errors[s][k] = inactiveRefs[s][k].errors
        /\ \A i \in DOMAIN observers[s] :
              errors[s][Vid(observers[s][i])] = errors[observers[s][i]]

(***************************************************************************)
(* Lifecycle of a nested observer.                                         *)
(***************************************************************************)
\* the indices of the parent's observers that hold c
Registrations(p, c) == {i \in DOMAIN observers[p] : observers[p][i] = c}

\* C22: in every state a nested observer occurs at most once in the
\* observers of its parent, and once its deactivated or beforeDestroy hook
\* has run the parent's observers hold no entry with its id.
C22_RegisteredOnce ==
  \A c \in Scopes :
     Parent(c) # NoScope =>
        /\ Cardinality(Registrations(Parent(c), c)) <= 1
        /\ life[c] \in {"deactivated", "destroyed"} =>
              \A i \in DOMAIN observers[Parent(c)] :
                 Vid(observers[Parent(c)][i]) # Vid(c)

(***************************************************************************)
(* Teardown of a provider whose id was taken over.                         *)
(***************************************************************************)
\* C23: the teardown of provider h calls unsubscribe with h's id, and the
\* call acts on the provider registered under that id at the time of the
\* call, whether or not it is h: that provider leaves refs, it is cached iff
\* it persists, and the cached entry holds its flags, errors and failedRules.
C23_ActsOnCurrent ==
  [][\A h \in Handles :
        (Unsubscribe(h) /\ HId(h) \in DOMAIN refs[HScope(h)]) =>
           LET s == HScope(h)
               id == HId(h)
               current == refs[s][id]
           IN /\ refs'[s] = Delete(refs[s], id)
              /\ \A t \in Scopes \ {s} : refs'[t] = refs[t] /\ inactiveRefs'[t] = inactiveRefs[t]
              /\ pstate' = pstate
              /\ IF HPersist(current)
                   THEN /\ DOMAIN inactiveRefs'[s] = DOMAIN inactiveRefs[s] \cup {id}
                        /\ inactiveRefs'[s][id] =
                             [id |-> id,
                              flags |-> pstate[current].flags,
                              errors |-> pstate[current].errors,
                              failedRules |-> pstate[current].failedRules]
                        /\ \A k \in DOMAIN inactiveRefs[s] \ {id} :
                              inactiveRefs'[s][k] = inactiveRefs[s][k]
                   ELSE inactiveRefs'[s] = inactiveRefs[s]]_vars

\* h2 subscribed under id a in R and passed, a persisting provider of the
\* same id took its place, and one unsubscribe of a later the cache holds
\* the untouched state of the second provider, not the passed state of h2
C23_Witness ==
  /\ ops = 4
  /\ refs["R"] = EmptyMap
  /\ pstate["h2"] = PassedState
  /\ pstate["h1"] = FreshState /\ pstate["h3"] = FreshState
  /\ DOMAIN inactiveRefs["R"] = {"a"}
  /\ inactiveRefs["R"]["a"].flags = FreshState.flags
  /\ inactiveRefs["R"]["a"].errors = FreshState.errors

(***************************************************************************)
(* Propagation to the ancestors.                                           *)
(***************************************************************************)
\* what the watcher getter of s reads: the members, the cache, the nested
\* observers, the state of each member and the errors and flags of each
\* nested observer
Inputs(s) ==
  <<refs[s], inactiveRefs[s], observers[s],
    [k \in DOMAIN refs[s] |-> pstate[refs[s][k]]],
    [i \in DOMAIN observers[s] |-> <<errors[observers[s][i]], flags[observers[s][i]]>>]>>

Published(s) == [armed |-> TRUE, errors |-> errors[s], flags |-> flags[s]]

\* C21: when a provider changes or a member joins or leaves an observer at
\* any depth, the timer of that observer is armed, a timer that fires
\* publishes all the flags and thereby changes what its parent reads, and
\* (every armed timer firing eventually) once the changes stop no timer stays
\* armed and every observer that published holds the reduction over its
\* candidates in the final state.
C21_PropagatesUpward ==
  /\ [][\A s \in Scopes :
          /\ (life'[s] \in Alive /\ Inputs(s)' # Inputs(s)) => timer'[s].armed
          /\ (timer[s].armed /\ ~timer'[s].armed) => DOMAIN flags'[s] = FlagNames]_vars
  /\ <>[](\A s \in Scopes :
             /\ ~timer[s].armed
             /\ (life[s] \in Alive /\ DOMAIN flags[s] # {}) => Published(s) = Current(s))

\* the provider of B, nested in A, nested in R, failed, and its errors and
\* its invalid flag went up through A to R, with no timer left armed
C21_Witness ==
  /\ ops = 4
  /\ \A s \in Scopes : life[s] \in Alive /\ ~timer[s].armed
  /\ refs["B"] = ("a" :> "h5")
  /\ pstate["h5"] = FailedState
  /\ \A s \in Scopes : Published(s) = Current(s)
  /\ errors["R"] = ("obs_1" :> ("obs_2" :> ("a" :> <<"required">>)))
  /\ flags["R"].invalid /\ ~flags["R"].valid
====
